---------------------------- MODULE Spec2Model ----------------------------
(***************************************************************************)
(* Word-level model of the segregated free-list allocator of               *)
(* CSE4009_System_Programming/assignment2/mm.c (mm_init, mm_malloc,        *)
(* mm_free, mm_realloc and their helpers).                                 *)
(*                                                                         *)
(* The heap is a map from byte addresses of 4-byte words to 32-bit words.  *)
(* A 32-bit unsigned value v is represented by the integer of the same bit *)
(* pattern in two's complement: v itself when v < 2^31 and v - 2^32        *)
(* otherwise (so 4294967295 is written -1).  Additions, subtractions,      *)
(* comparisons and divisions are the unsigned 32-bit ones of the C code.   *)
(***************************************************************************)
EXTENDS Integers, Sequences, FiniteSets, TLC

(***************************************************************************)
(* Program constants (mm.c lines 35-37, 73-74)                             *)
(***************************************************************************)
WSIZE == 4
DSIZE == 8
CHUNKSIZE == 4096
ClassSize == 17
BLOCKSIZE == 16
NULL == 0

\* largest positive representative of an unsigned int word (bit 31 clear)
INT_MAX == 2147483647

(***************************************************************************)
(* Bounds of the model                                                     *)
(***************************************************************************)
\* number of mm_malloc / mm_free / mm_realloc / payload-write calls explored
MaxOps == 4
\* number of allocations the caller holds at the same time
MaxLive == 2
\* bytes the growth primitive can hand out in the roomy configuration
\* (the bootstrap's 80 + 4096 bytes and room for one more extension)
MaxHeap == 8296
\* a platform limit that lets mm_init pass and every later extension fail
ChunkHeap == 4200
\* a platform limit that lets the first request of mm_init pass and the
\* second fail
SmallHeap == 128
\* a platform limit below the first request of mm_init
TinyHeap == 64
\* words of a payload, from its start, that the caller's writes reach
WriteWords == 4

(***************************************************************************)
(* 32-bit unsigned arithmetic on two's-complement representatives          *)
(***************************************************************************)
\* a + b modulo 2^32
Add32(a, b) ==
    IF a > 0 /\ b > 0 /\ a > INT_MAX - b
    THEN (a - INT_MAX - 1) + (b - INT_MAX - 1)
    ELSE IF a < 0 /\ b < 0 /\ a < (-INT_MAX - 1) - b
    THEN (a + INT_MAX + 1) + (b + INT_MAX + 1)
    ELSE a + b

\* a - b modulo 2^32
Sub32(a, b) ==
    IF a >= 0 /\ b < 0 /\ a > INT_MAX + b
    THEN (a - INT_MAX - 1) - (b + INT_MAX + 1)
    ELSE IF a < 0 /\ b > 0 /\ a < (-INT_MAX - 1) + b
    THEN (a + INT_MAX + 1) - (b - INT_MAX - 1)
    ELSE a - b

\* unsigned a < b, a <= b, a > b, a >= b
ULT(a, b) == IF (a >= 0) = (b >= 0) THEN a < b ELSE a >= 0
ULE(a, b) == a = b \/ ULT(a, b)
UGT(a, b) == ULT(b, a)
UGE(a, b) == ULE(b, a)

\* unsigned a / d for d a power of two, 2 <= d <= 2^30
UDiv(a, d) ==
    IF a >= 0 THEN a \div d
    ELSE ((a \div d) + ((INT_MAX \div d) + 1)) + ((INT_MAX \div d) + 1)

\* d * q modulo 2^32 for d a power of two and 0 <= q <= 2^32 / d
UMul(d, q) ==
    IF q > INT_MAX \div d
    THEN d * ((q - ((INT_MAX \div d) + 1)) - ((INT_MAX \div d) + 1))
    ELSE d * q

(***************************************************************************)
(* Machine state.  mem holds the words written so far; every other word of *)
(* the region handed out by the growth primitive still holds junk.         *)
(***************************************************************************)
VARIABLES
    mem,            \* address -> word, the words written so far
    mem_brk,        \* end of the region handed out by the growth primitive
    mem_start,      \* first address of the region
    mem_max_addr,   \* platform limit of the region
    junk,           \* content of the words never written
    FreeBlocks,     \* static char **FreeBlocks  (the bucket array)
    HeapBlocks,     \* static char *HeapBlocks   (the prologue block)
    status,         \* "start", "ready", "initfail", "undefined", "hung"
    live,           \* the allocations the caller holds: <<[p, n], ...>>
    last,           \* the last call: [op, p, n, ret, grow]
    prev,           \* the heap as it was before the last call
    nops            \* calls made so far

vars == <<mem, mem_brk, mem_start, mem_max_addr, junk, FreeBlocks, HeapBlocks,
          status, live, last, prev, nops>>

(***************************************************************************)
(* A heap record h threads the memory through the C statements:            *)
(*   mem, brk          the memory and the break                            *)
(*   FreeBlocks, HeapBlocks  the two globals                               *)
(*   st    "ok", "fault" (undefined behaviour: an access outside the       *)
(*         region or misaligned), "hang" (a loop that never ends)          *)
(*   grow  the requests made to the growth primitive: <<[incr, ok], ...>>  *)
(*   ret   the value returned by the function just run                     *)
(***************************************************************************)
Faulted(h) == h.st # "ok"
Fault(h) == [h EXCEPT !.st = "fault"]
Ret(h, v) == [h EXCEPT !.ret = v]

\* an unsigned int access at p is defined: aligned and inside the region
Valid(h, p) == p % WSIZE = 0 /\ p >= mem_start /\ p <= h.brk - WSIZE

\* mm.c line 42
PACK(size, alloc) == IF size % 2 = 1 THEN size ELSE size + alloc

\* mm.c line 44
GET(h, p) == IF p \in DOMAIN h.mem THEN h.mem[p] ELSE junk

\* mm.c line 45
PUT(h, p, val) ==
    IF Faulted(h) THEN h
    ELSE IF ~Valid(h, p) THEN Fault(h)
    ELSE [h EXCEPT !.mem = (p :> val) @@ h.mem]

\* the reads at the addresses ps are defined, else undefined behaviour
Probe(h, ps) ==
    IF Faulted(h) THEN h
    ELSE IF \E p \in ps : ~Valid(h, p) THEN Fault(h)
    ELSE h

\* mm.c lines 47-48
GET_SIZE(h, p) == GET(h, p) - (GET(h, p) % 8)
GET_ALLOC(h, p) == GET(h, p) % 2

\* mm.c lines 50-53
pAtC(bp) == Add32(bp, WSIZE)
p_char_GET(h, bp) == GET(h, bp)
pAtC_GET(h, bp) == GET(h, pAtC(bp))

\* mm.c lines 56-64
HDRP(bp) == Sub32(bp, WSIZE)
FTRP(h, bp) == Sub32(Add32(bp, GET_SIZE(h, HDRP(bp))), DSIZE)
PREV_BLKP(h, bp) == Sub32(bp, GET_SIZE(h, Sub32(bp, DSIZE)))
NEXT_BLKP(h, bp) == Add32(bp, GET_SIZE(h, HDRP(bp)))

\* mm.c line 39
MAX(x, y) == IF UGT(x, y) THEN x ELSE y


(***************************************************************************)
(* The growth primitive (memlib's mem_sbrk; not part of mm.c): extends the *)
(* region by incr bytes and returns the old end, or fails with -1 when the *)
(* request is negative or passes the platform limit.                       *)
(***************************************************************************)
mem_sbrk(h, incr) ==
    IF incr < 0 \/ incr > mem_max_addr - h.brk
    THEN [h EXCEPT !.grow = Append(@, [incr |-> incr, ok |-> FALSE]), !.ret = -1]
    ELSE [h EXCEPT !.grow = Append(@, [incr |-> incr, ok |-> TRUE]),
                   !.brk = h.brk + incr, !.ret = h.brk]

\* sequencing: the statement(s) K run on the heap h left by what came before
Then(h, K(_)) == K(h)

\* mm.c lines 536-540
put_head_foot(h, bp, size, t) ==
    Then(PUT(h, HDRP(bp), PACK(size, t)), LAMBDA h1 :
         PUT(h1, FTRP(h1, bp), PACK(size, t)))

\* mm.c lines 543-547
put(h, bp, t) == PUT(PUT(h, bp, t), pAtC(bp), t)

(***************************************************************************)
(* The size-class computation, written out twice in mm.c.                  *)
(***************************************************************************)
RECURSIVE insert_class_loop(_, _, _)
\* the while loop of free_list_insert, mm.c lines 463-467
insert_class_loop(size, size_class, sumr) ==
    IF UGT(size, BLOCKSIZE) /\ size_class < ClassSize - 1
    THEN insert_class_loop(UDiv(size, 2), size_class + 1, sumr + (size % 2))
    ELSE [size |-> size, size_class |-> size_class, sumr |-> sumr]

\* mm.c lines 468-470
insert_class_end(r) ==
    IF r.size_class < ClassSize - 1 /\ r.sumr > 0 /\ r.size = BLOCKSIZE
    THEN r.size_class + 1
    ELSE r.size_class

\* mm.c lines 461-470
insert_class(size) == insert_class_end(insert_class_loop(size, 0, 0))

RECURSIVE find_class_loop(_, _, _)
\* the while loop of find_fit, mm.c lines 351-355
find_class_loop(asize, size_class, sumr) ==
    IF UGT(asize, BLOCKSIZE) /\ size_class < ClassSize - 1
    THEN find_class_loop(UDiv(asize, 2), size_class + 1, sumr + (asize % 2))
    ELSE [asize |-> asize, size_class |-> size_class, sumr |-> sumr]

\* mm.c lines 356-358
find_class_end(r) ==
    IF r.size_class < ClassSize - 1 /\ r.sumr > 0 /\ r.asize = BLOCKSIZE
    THEN r.size_class + 1
    ELSE r.size_class

\* mm.c lines 348-358
find_class(asize) == find_class_end(find_class_loop(asize, 0, 0))

(***************************************************************************)
(* free_list_insert, mm.c lines 456-487: push bp at the head of the bucket *)
(* of its size.                                                            *)
(***************************************************************************)
\* mm.c lines 473-485
free_list_link(h, bp, size_class_ptr) ==
    IF ~Valid(h, size_class_ptr) THEN Fault(h)
    ELSE IF GET(h, size_class_ptr) = 0
    THEN Then(PUT(h, size_class_ptr, bp), LAMBDA h1 :
         Then(PUT(h1, bp, size_class_ptr), LAMBDA h2 :
              PUT(h2, pAtC(bp), 0)))
    ELSE Then(PUT(h, bp, size_class_ptr), LAMBDA h1 :
         Then(PUT(h1, pAtC(bp), GET(h1, size_class_ptr)), LAMBDA h2 :
         Then(PUT(h2, GET(h2, size_class_ptr), bp), LAMBDA h3 :
              PUT(h3, size_class_ptr, bp))))

free_list_insert(h, bp) ==
    IF Faulted(h) THEN h
    ELSE IF ~Valid(h, HDRP(bp)) THEN Fault(h)
    ELSE free_list_link(h, bp,
             h.FreeBlocks + WSIZE * insert_class(GET_SIZE(h, HDRP(bp))))

(***************************************************************************)
(* free_list_remove, mm.c lines 490-530: unlink bp; bp is a list head when *)
(* its prev-link points, word aligned, into the bucket array.              *)
(***************************************************************************)
\* mm.c lines 493-501: 1 when the prev-link valP is no bucket slot
free_list_pre(h, valP) ==
    IF UGT(valP, Add32(h.FreeBlocks, WSIZE * (ClassSize - 1)))
       \/ ULT(valP, h.FreeBlocks) THEN 1
    ELSE IF Sub32(Add32(h.FreeBlocks, WSIZE * (ClassSize - 1)), valP) % WSIZE # 0
    THEN 1
    ELSE 0

\* mm.c lines 509-528
free_list_unlink(h, bp, pre, suc) ==
    Then(IF pre = 0 /\ suc = 1
         THEN Then(PUT(h, p_char_GET(h, bp), pAtC_GET(h, bp)), LAMBDA g :
                   PUT(g, pAtC_GET(g, bp), p_char_GET(g, bp)))
         ELSE IF pre = 0 /\ suc = 0
         THEN PUT(h, p_char_GET(h, bp), pAtC_GET(h, bp))
         ELSE IF pre = 1 /\ suc = 1
         THEN Then(PUT(h, pAtC(p_char_GET(h, bp)), pAtC_GET(h, bp)), LAMBDA g :
                   PUT(g, pAtC_GET(g, bp), p_char_GET(g, bp)))
         ELSE PUT(h, pAtC(p_char_GET(h, bp)), 0),
         LAMBDA h1 : PUT(PUT(h1, bp, 0), pAtC(bp), 0))

free_list_remove(h, bp) ==
    IF Faulted(h) THEN h
    ELSE IF ~Valid(h, bp) \/ ~Valid(h, pAtC(bp)) \/ ~Valid(h, HDRP(bp))
    THEN Fault(h)
    ELSE IF GET_ALLOC(h, HDRP(bp)) = 1
    THEN h      \* prints a warning and returns
    ELSE free_list_unlink(h, bp, free_list_pre(h, p_char_GET(h, bp)),
                          IF pAtC_GET(h, bp) # 0 THEN 1 ELSE 0)

(***************************************************************************)
(* coalesce, mm.c lines 387-427: merge bp with its free neighbours; the    *)
(* merged block's address is returned in ret.                              *)
(***************************************************************************)
\* Case 2, mm.c lines 396-403
coalesce_next(h, bp, size) ==
    Then(free_list_remove(h, NEXT_BLKP(h, bp)), LAMBDA h1 :
    Then(PUT(h1, HDRP(bp),
             PACK(Add32(size, GET_SIZE(h1, HDRP(NEXT_BLKP(h1, bp)))), 0)),
         LAMBDA h2 :
    Then(PUT(h2, FTRP(h2, bp),
             PACK(Add32(size, GET_SIZE(h1, HDRP(NEXT_BLKP(h1, bp)))), 0)),
         LAMBDA h3 : Ret(h3, bp))))

\* Case 3, mm.c lines 405-413
coalesce_prev(h, bp, size) ==
    Then(free_list_remove(h, PREV_BLKP(h, bp)), LAMBDA h1 :
    Then(PUT(h1, FTRP(h1, bp),
             PACK(Add32(size, GET_SIZE(h1, HDRP(PREV_BLKP(h1, bp)))), 0)),
         LAMBDA h2 :
    Then(PUT(h2, HDRP(PREV_BLKP(h2, bp)),
             PACK(Add32(size, GET_SIZE(h1, HDRP(PREV_BLKP(h1, bp)))), 0)),
         LAMBDA h3 : Ret(h3, PREV_BLKP(h3, bp)))))

\* Case 4, mm.c lines 415-424
coalesce_both(h, bp, size) ==
    Then(free_list_remove(h, PREV_BLKP(h, bp)), LAMBDA h1 :
    Then(free_list_remove(h1, NEXT_BLKP(h1, bp)), LAMBDA h2 :
    Then(Probe(h2, {FTRP(h2, NEXT_BLKP(h2, bp))}), LAMBDA h3 :
    Then(PUT(h3, HDRP(PREV_BLKP(h3, bp)),
             PACK(Add32(size,
                    Add32(GET_SIZE(h3, HDRP(PREV_BLKP(h3, bp))),
                          GET_SIZE(h3, FTRP(h3, NEXT_BLKP(h3, bp))))), 0)),
         LAMBDA h4 :
    Then(PUT(h4, FTRP(h4, NEXT_BLKP(h4, bp)),
             PACK(Add32(size,
                    Add32(GET_SIZE(h3, HDRP(PREV_BLKP(h3, bp))),
                          GET_SIZE(h3, FTRP(h3, NEXT_BLKP(h3, bp))))), 0)),
         LAMBDA h5 : Ret(h5, PREV_BLKP(h5, bp)))))))

\* mm.c lines 392-426
coalesce_case(h, bp, prev_alloc, next_alloc, size) ==
    IF prev_alloc = 1 /\ next_alloc = 1 THEN Ret(h, bp)
    ELSE IF prev_alloc = 1 /\ next_alloc = 0 THEN coalesce_next(h, bp, size)
    ELSE IF prev_alloc = 0 /\ next_alloc = 1 THEN coalesce_prev(h, bp, size)
    ELSE coalesce_both(h, bp, size)

coalesce(h, bp) ==
    IF Faulted(h) THEN h
    ELSE IF ~Valid(h, Sub32(bp, DSIZE)) \/ ~Valid(h, HDRP(bp))
    THEN Fault(h)
    ELSE IF ~Valid(h, HDRP(PREV_BLKP(h, bp)))
            \/ ~Valid(h, FTRP(h, PREV_BLKP(h, bp)))
            \/ ~Valid(h, HDRP(NEXT_BLKP(h, bp)))
    THEN Fault(h)
    ELSE coalesce_case(h, bp,
                       GET_ALLOC(h, FTRP(h, PREV_BLKP(h, bp))),
                       GET_ALLOC(h, HDRP(NEXT_BLKP(h, bp))),
                       GET_SIZE(h, HDRP(bp)))

(***************************************************************************)
(* extend_heap, mm.c lines 287-307: ret is the new free block, or NULL.    *)
(***************************************************************************)
\* mm.c lines 296-306, bp being the old end of the region
extend_heap_block(h, bp, size) ==
    Then(PUT(h, HDRP(bp), PACK(size, 0)), LAMBDA h1 :
    Then(PUT(h1, FTRP(h1, bp), PACK(size, 0)), LAMBDA h2 :
    Then(PUT(h2, HDRP(NEXT_BLKP(h2, bp)), PACK(0, 1)), LAMBDA h3 :
    Then(coalesce(h3, bp), LAMBDA h4 :
         IF Faulted(h4) THEN h4
         ELSE Ret(free_list_insert(h4, h4.ret), h4.ret)))))

\* mm.c lines 292-294
extend_heap_sbrk(h, size) ==
    Then(mem_sbrk(h, size), LAMBDA h0 :
         IF h0.ret = -1 THEN Ret(h0, NULL)
         ELSE extend_heap_block(h0, h0.ret, size))

extend_heap(h, words) ==
    IF Faulted(h) THEN h
    ELSE extend_heap_sbrk(h, IF words % 2 = 1
                             THEN UMul(WSIZE, Add32(words, 1))
                             ELSE UMul(WSIZE, words))

(***************************************************************************)
(* find_fit, mm.c lines 346-382: first fit over the buckets from the       *)
(* request's size class upward; ret is the block found, or NULL.           *)
(***************************************************************************)
RECURSIVE find_fit_list(_, _, _, _)
\* the inner while loop, mm.c lines 370-376; seen holds the blocks already
\* visited: meeting one again means the loop never ends
find_fit_list(h, tmp_s, bp, seen) ==
    IF bp = 0 THEN Ret(h, NULL)
    ELSE IF bp \in seen THEN [h EXCEPT !.st = "hang"]
    ELSE IF ~Valid(h, HDRP(bp)) THEN Fault(h)
    ELSE IF ULE(tmp_s, GET_SIZE(h, HDRP(bp))) THEN Ret(h, bp)
    ELSE IF ~Valid(h, pAtC(bp)) THEN Fault(h)
    ELSE find_fit_list(h, tmp_s, pAtC_GET(h, bp), seen \cup {bp})

RECURSIVE find_fit_classes(_, _, _)
\* the outer while loop, mm.c lines 364-379
find_fit_classes(h, tmp_s, size_class) ==
    IF size_class >= ClassSize THEN Ret(h, NULL)
    ELSE IF ~Valid(h, h.FreeBlocks + WSIZE * size_class) THEN Fault(h)
    ELSE Then(find_fit_list(h, tmp_s,
                            GET(h, h.FreeBlocks + WSIZE * size_class), {}),
              LAMBDA r :
              IF Faulted(r) \/ r.ret # NULL THEN r
              ELSE find_fit_classes(h, tmp_s, size_class + 1))

\* find_fit starting its scan one bucket too high
find_fit_next_class(h, asize) ==
    IF Faulted(h) THEN h
    ELSE find_fit_classes(h, asize, find_class(asize) + 1)

find_fit(h, asize) ==
    IF Faulted(h) THEN h
    ELSE find_fit_classes(h, asize, find_class(asize))

(***************************************************************************)
(* place, mm.c lines 316-340: allocate asize bytes at the start of the     *)
(* free block bp, splitting off the rest when it is at least BLOCKSIZE.    *)
(***************************************************************************)
\* mm.c lines 327-333, nbp being the block after the one just allocated
place_rest(h, nbp, rest) ==
    Then(PUT(h, HDRP(nbp), PACK(rest, 0)), LAMBDA h4 :
    Then(PUT(h4, FTRP(h4, nbp), PACK(rest, 0)), LAMBDA h5 :
    Then(PUT(h5, nbp, 0), LAMBDA h6 :
    Then(PUT(h6, pAtC(nbp), 0), LAMBDA h7 :
         free_list_insert(h7, nbp)))))

\* mm.c lines 320-339
place_split(h, bp, asize, csize) ==
    IF UGE(Sub32(csize, asize), BLOCKSIZE)
    THEN Then(free_list_remove(h, bp), LAMBDA h1 :
         Then(PUT(h1, HDRP(bp), PACK(asize, 1)), LAMBDA h2 :
         Then(PUT(h2, FTRP(h2, bp), PACK(asize, 1)), LAMBDA h3 :
              place_rest(h3, NEXT_BLKP(h3, bp), Sub32(csize, asize)))))
    ELSE Then(free_list_remove(h, bp), LAMBDA h1 :
         Then(PUT(h1, HDRP(bp), PACK(csize, 1)), LAMBDA h2 :
              PUT(h2, FTRP(h2, bp), PACK(csize, 1))))

place(h, bp, asize) ==
    IF Faulted(h) THEN h
    ELSE IF ~Valid(h, HDRP(bp)) THEN Fault(h)
    ELSE place_split(h, bp, asize, GET_SIZE(h, HDRP(bp)))

(***************************************************************************)
(* mm_init, mm.c lines 94-114: ret is 0, or -1 when a growth request fails *)
(***************************************************************************)
\* mm_init without the test of extend_heap's result at mm.c line 110
mm_init_heap_unchecked(h, base) ==
    Then([h EXCEPT !.mem = [a \in {base + WSIZE * i : i \in 0 .. ClassSize - 1}
                                |-> 0] @@ h.mem,
                   !.FreeBlocks = base,
                   !.HeapBlocks = base + ClassSize * WSIZE], LAMBDA h1 :
    Then(PUT(h1, h1.HeapBlocks, PACK(DSIZE, 1)), LAMBDA h2 :
    Then(PUT(h2, h1.HeapBlocks + 1 * WSIZE, PACK(DSIZE, 1)), LAMBDA h3 :
    Then(PUT(h3, h1.HeapBlocks + 2 * WSIZE, PACK(0, 1)), LAMBDA h4 :
    Then(extend_heap([h4 EXCEPT !.HeapBlocks = @ + 1 * WSIZE],
                     CHUNKSIZE \div WSIZE), LAMBDA h6 :
         IF Faulted(h6) THEN h6 ELSE Ret(h6, 0))))))

\* mm.c lines 100-113, base being the start of the region
mm_init_heap(h, base) ==
    Then([h EXCEPT !.mem = [a \in {base + WSIZE * i : i \in 0 .. ClassSize - 1}
                                |-> 0] @@ h.mem,
                   !.FreeBlocks = base,
                   !.HeapBlocks = base + ClassSize * WSIZE], LAMBDA h1 :
    Then(PUT(h1, h1.HeapBlocks, PACK(DSIZE, 1)), LAMBDA h2 :
    Then(PUT(h2, h1.HeapBlocks + 1 * WSIZE, PACK(DSIZE, 1)), LAMBDA h3 :
    Then(PUT(h3, h1.HeapBlocks + 2 * WSIZE, PACK(0, 1)), LAMBDA h4 :
    Then(extend_heap([h4 EXCEPT !.HeapBlocks = @ + 1 * WSIZE],
                     CHUNKSIZE \div WSIZE), LAMBDA h6 :
         IF Faulted(h6) THEN h6
         ELSE IF h6.ret = NULL THEN Ret(h6, -1)
         ELSE Ret(h6, 0))))))

mm_init(h) ==
    Then(mem_sbrk(h, WSIZE * (ClassSize + 2 + 1)), LAMBDA h0 :
         IF h0.ret = -1 THEN [h0 EXCEPT !.HeapBlocks = -1, !.ret = -1]
         ELSE mm_init_heap(h0, h0.ret))

\* the rounded block size, mm.c lines 133-135
malloc_size2(size) ==
    IF UGT(size, DSIZE)
    THEN UMul(DSIZE, UDiv(Add32(Add32(size, DSIZE), DSIZE - 1), DSIZE))
    ELSE 2 * DSIZE

(***************************************************************************)
(* mm_malloc, mm.c lines 121-151                                           *)
(***************************************************************************)
\* mm.c lines 143-150: no fit was found
mm_malloc_extend(h, size2) ==
    Then(extend_heap(h, UDiv(MAX(size2, CHUNKSIZE), WSIZE)), LAMBDA e :
         IF Faulted(e) THEN e
         ELSE IF e.ret = NULL THEN Ret(e, NULL)
         ELSE Ret(place(e, e.ret, size2), e.ret))

\* mm.c lines 137-150
mm_malloc_fit(h, size2) ==
    Then(find_fit(h, size2), LAMBDA f :
         IF Faulted(f) THEN f
         ELSE IF f.ret # NULL THEN Ret(place(f, f.ret, size2), f.ret)
         ELSE mm_malloc_extend(f, size2))

mm_malloc(h, size) ==
    IF Faulted(h) THEN h
    ELSE IF size = 0 THEN Ret(h, NULL)
    ELSE mm_malloc_fit(h, malloc_size2(size))

(***************************************************************************)
(* mm_free, mm.c lines 158-170                                             *)
(***************************************************************************)
mm_free(h, bp) ==
    IF Faulted(h) THEN h
    ELSE IF ~Valid(h, HDRP(bp)) THEN Fault(h)
    ELSE Then(put_head_foot(h, bp, GET_SIZE(h, HDRP(bp)), 0), LAMBDA h1 :
         Then(put(h1, bp, 0), LAMBDA h2 :
         Then(coalesce(h2, bp), LAMBDA h3 :
              IF Faulted(h3) THEN h3
              ELSE Ret(free_list_insert(h3, h3.ret), NULL))))

(***************************************************************************)
(* memcpy(dst, src, n) of the C library, on whole words.  Copying to or    *)
(* from outside the region, or between overlapping ranges, is undefined.   *)
(***************************************************************************)
memcpy(h, dst, src, n) ==
    IF Faulted(h) \/ n = 0 THEN h
    ELSE IF n < 0 \/ n % WSIZE # 0
            \/ ~Valid(h, dst) \/ ~Valid(h, src)
            \/ n > h.brk - dst \/ n > h.brk - src
            \/ (dst < src + n /\ src < dst + n)
    THEN Fault(h)
    ELSE [h EXCEPT !.mem =
            [a \in {x \in DOMAIN h.mem : ~(dst <= x /\ x < dst + n)}
                   \cup {x + (dst - src) :
                           x \in {y \in DOMAIN h.mem : src <= y /\ y < src + n}}
             |-> IF dst <= a /\ a < dst + n THEN h.mem[a - (dst - src)]
                 ELSE h.mem[a]]]

\* the rounded block size, mm.c lines 197-203
realloc_size2(size) ==
    IF ULE(size, DSIZE) THEN 2 * DSIZE
    ELSE UMul(DSIZE, UDiv(Add32(Add32(size, DSIZE), DSIZE - 1), DSIZE))

(***************************************************************************)
(* mm_realloc, mm.c lines 177-253.  The header of oldbp is read (line 180) *)
(* before oldbp is compared with NULL (line 186): with oldbp = NULL that   *)
(* read is undefined, and ub names what the build makes of it: "trap" (the *)
(* load at NULL - 4 faults) or "elide" (the load is moved past the test    *)
(* and the call continues as written).                                     *)
(***************************************************************************)
\* mm.c lines 228-234: allocate, copy, release
mm_realloc_move(h, oldbp, size, old_size) ==
    Then(mm_malloc(h, size), LAMBDA m :
    Then(memcpy(m, m.ret, oldbp, Sub32(old_size, DSIZE)), LAMBDA c :
         Ret(mm_free(c, oldbp), m.ret)))

\* mm.c lines 211-235: the block has to grow
mm_realloc_grow(h, oldbp, size, old_size, size2) ==
    IF ~Valid(h, HDRP(NEXT_BLKP(h, oldbp))) THEN Fault(h)
    ELSE IF GET_ALLOC(h, HDRP(NEXT_BLKP(h, oldbp))) = 0
            /\ UGE(Add32(GET_SIZE(h, HDRP(NEXT_BLKP(h, oldbp))), old_size), size2)
    THEN Then(free_list_remove(h, NEXT_BLKP(h, oldbp)), LAMBDA h1 :
              Ret(put_head_foot(h1, oldbp,
                      Add32(old_size, GET_SIZE(h, HDRP(NEXT_BLKP(h, oldbp)))), 1),
                  oldbp))
    ELSE mm_realloc_move(h, oldbp, size, old_size)

\* mm.c lines 238-252: the block may shrink
mm_realloc_shrink(h, oldbp, old_size, size2) ==
    IF UGE(Sub32(old_size, size2), BLOCKSIZE)
    THEN Then(put_head_foot(h, oldbp, size2, 1), LAMBDA h1 :
         Then(put_head_foot(h1, NEXT_BLKP(h1, oldbp), Sub32(old_size, size2), 0),
              LAMBDA h2 :
         Then(put(h2, NEXT_BLKP(h1, oldbp), 0), LAMBDA h3 :
              Ret(free_list_insert(h3, NEXT_BLKP(h1, oldbp)), oldbp))))
    ELSE Ret(h, oldbp)

\* mm.c lines 196-252
mm_realloc_resize(h, oldbp, size, old_size, size2) ==
    IF size2 = old_size THEN Ret(h, oldbp)
    ELSE IF UGT(size2, old_size)
    THEN mm_realloc_grow(h, oldbp, size, old_size, size2)
    ELSE mm_realloc_shrink(h, oldbp, old_size, size2)

mm_realloc(h, oldbp, size, ub) ==
    IF Faulted(h) THEN h
    ELSE IF oldbp = NULL
    THEN IF ub = "trap" THEN Fault(h) ELSE mm_malloc(h, size)
    ELSE IF ~Valid(h, HDRP(oldbp)) THEN Fault(h)
    ELSE IF size = 0 THEN Ret(mm_free(h, oldbp), NULL)
    ELSE mm_realloc_resize(h, oldbp, size, GET_SIZE(h, HDRP(oldbp)),
                           realloc_size2(size))

(***************************************************************************)
(* The caller.  Request sizes: 0, sizes that round to blocks of 16, 24, 32  *)
(* and 4104 bytes (the last one more than a chunk), and the two largest kinds  *)
(* of size_t value, 4294967295 and 4294967281, written as -1 and -15.      *)
(***************************************************************************)
SmallSizes == {0, 1, 12, 4056, 4090}
HugeSizes == {-1, -15}
Sizes == SmallSizes \cup HugeSizes

\* first address handed out by the growth primitive: a multiple of 8
Starts == {1024 * 1024}
\* what the region holds before it is written
Junks == {0, -1}
\* the platform limits explored
Limits == {MaxHeap, ChunkHeap, SmallHeap, TinyHeap}
\* the words the caller stores in a payload, given the address written
Data(a) == {CHUNKSIZE, a - DSIZE}

Cur == [mem |-> mem, brk |-> mem_brk, FreeBlocks |-> FreeBlocks,
        HeapBlocks |-> HeapBlocks, st |-> "ok", grow |-> <<>>, ret |-> 0]

Snapshot == [mem |-> mem, brk |-> mem_brk, live |-> live]

\* the heap before the last call, as a heap record
Before == [Cur EXCEPT !.mem = prev.mem, !.brk = prev.brk]

\* the heap and the status after a call that ended in h
Commit(h) ==
    /\ mem' = h.mem
    /\ mem_brk' = h.brk
    /\ FreeBlocks' = h.FreeBlocks
    /\ HeapBlocks' = h.HeapBlocks
    /\ status' = IF h.st = "hang" THEN "hung"
                 ELSE IF h.st # "ok" THEN "undefined"
                 ELSE IF status = "start" /\ h.ret # 0 THEN "initfail"
                 ELSE "ready"
    /\ prev' = Snapshot
    /\ UNCHANGED <<mem_start, mem_max_addr, junk>>

\* the record of a call: old is the size the caller had asked for at p
Call(op, p, old, n, h) ==
    [op |-> op, p |-> p, old |-> old, n |-> n, ret |-> h.ret,
     grow |-> h.grow, st |-> h.st]

RemoveAt(s, i) == [j \in 1 .. Len(s) - 1 |-> IF j < i THEN s[j] ELSE s[j + 1]]

Init ==
    /\ mem = [a \in {} |-> 0]
    /\ mem_start \in Starts
    /\ mem_brk = mem_start
    /\ mem_max_addr \in {mem_start + l : l \in Limits}
    /\ junk \in Junks
    /\ FreeBlocks = 0
    /\ HeapBlocks = 0
    /\ status = "start"
    /\ live = <<>>
    /\ last = [op |-> "none", p |-> 0, old |-> 0, n |-> 0, ret |-> 0,
               grow |-> <<>>, st |-> "ok"]
    /\ prev = [mem |-> [a \in {} |-> 0], brk |-> mem_start, live |-> <<>>]
    /\ nops = 0

\* mm_init()
Initialize ==
    /\ status = "start"
    /\ LET h == mm_init(Cur)
       IN  /\ Commit(h)
           /\ last' = Call("init", 0, 0, 0, h)
    /\ UNCHANGED <<live, nops>>


\* p = mm_malloc(n); the caller keeps a non-null result
Malloc(n) ==
    /\ status = "ready"
    /\ nops < MaxOps
    /\ Len(live) < MaxLive
    /\ LET h == mm_malloc(Cur, n)
       IN  /\ Commit(h)
           /\ last' = Call("malloc", 0, 0, n, h)
           /\ live' = IF h.st = "ok" /\ h.ret # NULL
                      THEN Append(live, [p |-> h.ret, n |-> n])
                      ELSE live
    /\ nops' = nops + 1

\* mm_free(p) of an allocation the caller holds
Free(i) ==
    /\ status = "ready"
    /\ nops < MaxOps
    /\ LET h == mm_free(Cur, live[i].p)
       IN  /\ Commit(h)
           /\ last' = Call("free", live[i].p, live[i].n, 0, h)
    /\ live' = RemoveAt(live, i)
    /\ nops' = nops + 1

\* q = mm_realloc(p, n) of an allocation the caller holds: with n = 0 the
\* allocation is released; with a non-null result the caller holds q in
\* place of p; with a null result the caller still holds p
Realloc(i, n) ==
    /\ status = "ready"
    /\ nops < MaxOps
    /\ LET h == mm_realloc(Cur, live[i].p, n, "trap")
       IN  /\ Commit(h)
           /\ last' = Call("realloc", live[i].p, live[i].n, n, h)
           /\ live' = IF n = 0 THEN RemoveAt(live, i)
                      ELSE IF h.st = "ok" /\ h.ret # NULL
                      THEN [live EXCEPT ![i] = [p |-> h.ret, n |-> n]]
                      ELSE live
    /\ nops' = nops + 1

\* q = mm_realloc(NULL, n)
ReallocNull(n, ub) ==
    /\ status = "ready"
    /\ nops < MaxOps
    /\ Len(live) < MaxLive
    /\ LET h == mm_realloc(Cur, NULL, n, ub)
       IN  /\ Commit(h)
           /\ last' = Call("realloc", NULL, 0, n, h)
           /\ live' = IF h.st = "ok" /\ h.ret # NULL
                      THEN Append(live, [p |-> h.ret, n |-> n])
                      ELSE live
    /\ nops' = nops + 1

\* the caller stores the word v in word k of the n bytes it was given at p
Write(i, k, v) ==
    /\ status = "ready"
    /\ nops < MaxOps
    /\ ULE(WSIZE * (k + 1), live[i].n)
    /\ LET a == live[i].p + WSIZE * k
           h == PUT(Cur, a, v)
       IN  /\ GET(Cur, a) # v
           /\ Commit(h)
           /\ last' = Call("write", live[i].p, live[i].n, k, h)
    /\ UNCHANGED live
    /\ nops' = nops + 1

NextOn(S) ==
    \/ Initialize
    \/ \E n \in S : Malloc(n)
    \/ \E i \in 1 .. Len(live) : Free(i)
    \/ \E i \in 1 .. Len(live), n \in S : Realloc(i, n)
    \/ \E n \in S, ub \in {"trap", "elide"} : ReallocNull(n, ub)
    \/ \E i \in 1 .. Len(live), k \in 0 .. WriteWords - 1 :
          \E v \in Data(live[i].p + WSIZE * k) : Write(i, k, v)

Next == NextOn(Sizes)

Spec == Init /\ [][Next]_vars

\* the same caller, asking only for sizes below 4294967281
NextSmall == NextOn(SmallSizes)

SpecSmall == Init /\ [][NextSmall]_vars

\* a caller that only allocates, releases and writes
NextAF ==
    \/ Initialize
    \/ \E n \in Sizes : Malloc(n)
    \/ \E i \in 1 .. Len(live) : Free(i)
    \/ \E i \in 1 .. Len(live), k \in 0 .. WriteWords - 1 :
          \E v \in Data(live[i].p + WSIZE * k) : Write(i, k, v)

SpecAF == Init /\ [][NextAF]_vars

(***************************************************************************)
(* Observers of a heap record h                                            *)
(***************************************************************************)
\* the first block after the prologue
FirstBlock(h) == h.HeapBlocks + DSIZE

RECURSIVE HeapWalk(_, _, _)
\* the blocks met walking the headers from bp; the walk ends at the
\* epilogue header (the last word of the region) and stops at a block it
\* cannot step over (size 0, or reaching past the region), which it keeps
HeapWalk(h, bp, acc) ==
    IF HDRP(bp) = h.brk - WSIZE THEN acc
    ELSE IF ~Valid(h, HDRP(bp)) \/ bp \in {acc[i] : i \in 1 .. Len(acc)}
    THEN acc
    ELSE IF GET_SIZE(h, HDRP(bp)) <= 0 \/ GET_SIZE(h, HDRP(bp)) > h.brk - bp
    THEN Append(acc, bp)
    ELSE HeapWalk(h, NEXT_BLKP(h, bp), Append(acc, bp))

Blocks(h) == HeapWalk(h, FirstBlock(h), <<>>)
BlockSet(h) == {Blocks(h)[i] : i \in 1 .. Len(Blocks(h))}

\* the walk reaches the epilogue header
Tiled(h) ==
    LET b == Blocks(h)
    IN  IF b = <<>> THEN HDRP(FirstBlock(h)) = h.brk - WSIZE
        ELSE Valid(h, HDRP(b[Len(b)]))
             /\ HDRP(NEXT_BLKP(h, b[Len(b)])) = h.brk - WSIZE

RECURSIVE ListWalk(_, _, _)
\* the blocks met following the next-links from bp, up to a null link, a
\* link out of the region or a block met before
ListWalk(h, bp, acc) ==
    IF bp = 0 \/ ~Valid(h, pAtC(bp)) \/ bp \in {acc[i] : i \in 1 .. Len(acc)}
    THEN acc
    ELSE ListWalk(h, pAtC_GET(h, bp), Append(acc, bp))

RECURSIVE ListEnd(_, _, _)
\* the link that ends that walk: 0 for a list that ends in a null next-link
ListEnd(h, bp, seen) ==
    IF bp = 0 \/ ~Valid(h, pAtC(bp)) \/ bp \in seen THEN bp
    ELSE ListEnd(h, pAtC_GET(h, bp), seen \cup {bp})

Classes == 0 .. ClassSize - 1
Slot(h, c) == h.FreeBlocks + WSIZE * c
Bucket(h, c) == ListWalk(h, GET(h, Slot(h, c)), <<>>)
BucketSet(h, c) == {Bucket(h, c)[i] : i \in 1 .. Len(Bucket(h, c))}
Indexed(h) == UNION {BucketSet(h, c) : c \in Classes}


(***************************************************************************)
(* C1  Free-list consistency.  After a successful mm_init and any calls of *)
(* the caller, a heap block is linked in the index if and only if its      *)
(* allocated bit is 0; every free block is linked exactly once, in the     *)
(* bucket its size maps to; every bucket list is acyclic and ends in a     *)
(* null next-link.                                                         *)
(***************************************************************************)
FreeListConsistent(h) ==
    /\ \A b \in BlockSet(h) : (GET_ALLOC(h, HDRP(b)) = 0) <=> (b \in Indexed(h))
    /\ Indexed(h) \subseteq BlockSet(h)
    /\ \A c \in Classes :
          /\ ListEnd(h, GET(h, Slot(h, c)), {}) = 0
          /\ \A b \in BucketSet(h, c) : insert_class(GET_SIZE(h, HDRP(b))) = c
    /\ \A c, d \in Classes : c # d => BucketSet(h, c) \cap BucketSet(h, d) = {}

C1_FreeListConsistency == status = "ready" => FreeListConsistent(Cur)

(***************************************************************************)
(* C2  No overlap.  The byte ranges, header through footer, of the blocks  *)
(* the caller holds are pairwise disjoint, and each lies between the       *)
(* prologue block and the epilogue header.                                 *)
(***************************************************************************)
\* first byte of the block at p, and the byte after its footer
BlockLo(p) == p - WSIZE
BlockHi(h, p) == p - WSIZE + GET_SIZE(h, HDRP(p))

NoOverlap(h, held) ==
    /\ \A i \in 1 .. Len(held) :
          /\ BlockLo(held[i].p) >= h.HeapBlocks + WSIZE
          /\ BlockLo(held[i].p) < BlockHi(h, held[i].p)
          /\ BlockHi(h, held[i].p) <= h.brk - WSIZE
    /\ \A i, j \in 1 .. Len(held) :
          i < j => \/ BlockHi(h, held[i].p) <= BlockLo(held[j].p)
                   \/ BlockHi(h, held[j].p) <= BlockLo(held[i].p)

C2_NoOverlap == status = "ready" => NoOverlap(Cur, live)


(***************************************************************************)
(* C3  Coalescing completeness.  With a caller that only allocates and     *)
(* releases, no two adjacent heap blocks are both free.                    *)
(***************************************************************************)
NoAdjacentFree(h) ==
    \A i \in 1 .. Len(Blocks(h)) - 1 :
        ~(GET_ALLOC(h, HDRP(Blocks(h)[i])) = 0
          /\ GET_ALLOC(h, HDRP(Blocks(h)[i + 1])) = 0)

C3_CoalescingComplete == status = "ready" => NoAdjacentFree(Cur)

(***************************************************************************)
(* C4  Realloc data preservation.  After a successful mm_realloc(p, n) of  *)
(* a block whose caller had asked for old bytes, the first min(old, n)     *)
(* bytes at the returned address are the bytes that were at p.             *)
(***************************************************************************)
UMin(a, b) == IF ULT(a, b) THEN a ELSE b

\* the low cnt bytes of the word w (the bytes at the lowest addresses)
LowBytes(w, cnt) ==
    IF cnt >= 4 THEN w
    ELSE IF cnt = 3 THEN w % 16777216
    ELSE IF cnt = 2 THEN w % 65536
    ELSE w % 256

\* the first m bytes at q in ha are the first m bytes at p in hb
PrefixKept(hb, p, ha, q, m) ==
    \A o \in {a - p : a \in {x \in DOMAIN hb.mem : x >= p}}
             \cup {a - q : a \in {x \in DOMAIN ha.mem : x >= q}} :
        ULT(o, m) =>
            LowBytes(GET(hb, p + o), IF ULT(Sub32(m, o), 4) THEN m - o ELSE 4)
            = LowBytes(GET(ha, q + o), IF ULT(Sub32(m, o), 4) THEN m - o ELSE 4)

C4_ReallocKeepsData ==
    (last.op = "realloc" /\ last.p # NULL /\ last.st = "ok" /\ last.ret # NULL)
    => PrefixKept(Before, last.p, Cur, last.ret, UMin(last.old, last.n))

(***************************************************************************)
(* C5  mm_realloc(NULL, n) behaves as mm_malloc(n): same result, same heap *)
(* and index afterwards.                                                   *)
(***************************************************************************)
SameAs(h) ==
    /\ last.st = h.st
    /\ last.ret = h.ret
    /\ last.grow = h.grow
    /\ mem = h.mem
    /\ mem_brk = h.brk

C5_ReallocNullIsMalloc ==
    (last.op = "realloc" /\ last.p = NULL) => SameAs(mm_malloc(Before, last.n))

(***************************************************************************)
(* C6  Out of memory in mm_realloc.  When mm_realloc(p, n) has to allocate *)
(* a new block and the growth primitive fails, it returns NULL, the heap   *)
(* and the index are as before and p is still an allocated block.          *)
(***************************************************************************)
GrowthFailed == \E i \in 1 .. Len(last.grow) : ~last.grow[i].ok

C6_ReallocOutOfMemory ==
    (last.op = "realloc" /\ last.p # NULL /\ last.n # 0 /\ GrowthFailed)
    => /\ status = "ready"
       /\ last.ret = NULL
       /\ mem = prev.mem
       /\ mem_brk = prev.brk
       /\ GET_ALLOC(Cur, HDRP(last.p)) = 1

(***************************************************************************)
(* C7  mm_malloc returns NULL exactly when the size is 0, or no indexed    *)
(* free block fits and the growth primitive fails; the heap, the index and *)
(* the region end are then as before the call.                             *)
(***************************************************************************)
\* no block of the index holds asize bytes
NoFit(h, asize) == \A b \in Indexed(h) : ULT(GET_SIZE(h, HDRP(b)), asize)

\* the growth primitive refuses incr more bytes
NoRoom(h, incr) == incr < 0 \/ incr > mem_max_addr - h.brk

C7_MallocNull ==
    (last.op = "malloc" /\ last.st = "ok")
    => /\ (last.ret = NULL) <=>
              \/ last.n = 0
              \/ /\ NoFit(Before, malloc_size2(last.n))
                 /\ NoRoom(Before, MAX(malloc_size2(last.n), CHUNKSIZE))
       /\ last.ret = NULL => mem = prev.mem /\ mem_brk = prev.brk

(***************************************************************************)
(* C8  Reuse before growth.  mm_malloc(n) asks the growth primitive only   *)
(* if no indexed free block holds the rounded size, at most once and for   *)
(* exactly max(rounded size, CHUNKSIZE) bytes; when some indexed block     *)
(* fits, the result is carved from a block of the index and the region end *)
(* stays.                                                                  *)
(***************************************************************************)
C8_ReuseBeforeGrowth ==
    (last.op = "malloc" /\ last.st = "ok" /\ last.n # 0)
    => /\ Len(last.grow) <= 1
       /\ last.grow # <<>> =>
              /\ NoFit(Before, malloc_size2(last.n))
              /\ last.grow[1].incr = MAX(malloc_size2(last.n), CHUNKSIZE)
       /\ ~NoFit(Before, malloc_size2(last.n)) =>
              /\ last.ret \in Indexed(Before)
              /\ UGE(GET_SIZE(Before, HDRP(last.ret)), malloc_size2(last.n))
              /\ mem_brk = prev.brk

(***************************************************************************)
(* C9  Alignment.  Every non-null address returned by mm_malloc or         *)
(* mm_realloc is a multiple of 8.                                          *)
(***************************************************************************)
C9_Alignment ==
    (last.op \in {"malloc", "realloc"} /\ last.st = "ok" /\ last.ret # NULL)
    => last.ret % 8 = 0

(***************************************************************************)
(* C10  mm_init fails if and only if one of its growth requests fails; on  *)
(* success the heap is the prologue (8, allocated), one free block of 4096 *)
(* bytes that is the only entry of its bucket, the epilogue header         *)
(* (0, allocated), and every other bucket is empty.                        *)
(***************************************************************************)
InitialHeap(h) ==
    /\ GET(h, HDRP(h.HeapBlocks)) = PACK(DSIZE, 1)
    /\ GET(h, h.HeapBlocks) = PACK(DSIZE, 1)
    /\ Blocks(h) = <<FirstBlock(h)>>
    /\ GET(h, HDRP(FirstBlock(h))) = PACK(CHUNKSIZE, 0)
    /\ GET(h, FTRP(h, FirstBlock(h))) = PACK(CHUNKSIZE, 0)
    /\ HDRP(NEXT_BLKP(h, FirstBlock(h))) = h.brk - WSIZE
    /\ GET(h, h.brk - WSIZE) = PACK(0, 1)
    /\ \A c \in Classes :
          Bucket(h, c) = IF c = 8 THEN <<FirstBlock(h)>> ELSE <<>>

WellFormed(h) ==
    /\ GET(h, HDRP(h.HeapBlocks)) = PACK(DSIZE, 1)
    /\ GET(h, h.HeapBlocks) = PACK(DSIZE, 1)
    /\ GET(h, h.brk - WSIZE) = PACK(0, 1)
    /\ Tiled(h)
    /\ \A b \in BlockSet(h) :
          /\ GET(h, HDRP(b)) = GET(h, FTRP(h, b))
          /\ GET_SIZE(h, HDRP(b)) >= BLOCKSIZE
          /\ GET(h, HDRP(b)) % 8 \in {0, 1}
    /\ h.HeapBlocks \notin Indexed(h)
    /\ h.brk \notin Indexed(h)

C11_WellFormed == status = "ready" => WellFormed(Cur)


(***************************************************************************)
(* C12  mm_free(p) of a block the caller holds merges p with exactly those *)
(* of its two physical neighbours that are free: the free block that       *)
(* results starts at the previous block if that one was free and at p      *)
(* otherwise, its header and footer hold the sum of the merged sizes with  *)
(* allocated = 0, the merged neighbours leave the index and the merged     *)
(* block is the one block that enters it.                                  *)
(***************************************************************************)
\* the neighbours of p that are free in h
FreeBefore(h, p) ==
    {b \in {PREV_BLKP(h, p)} : GET_ALLOC(h, HDRP(b)) = 0}
FreeAfter(h, p) ==
    {b \in {NEXT_BLKP(h, p)} : GET_ALLOC(h, HDRP(b)) = 0}

\* the sum of the sizes of the blocks of bs, at most two
RECURSIVE SizeSum(_, _)
SizeSum(h, bs) ==
    IF bs = {} THEN 0
    ELSE LET b == CHOOSE x \in bs : TRUE
         IN  Add32(GET_SIZE(h, HDRP(b)), SizeSum(h, bs \ {b}))

\* the heap ha is hb after p was merged with its free neighbours
Merged(hb, ha, p, start, total) ==
    /\ GET(ha, HDRP(start)) = PACK(total, 0)
    /\ GET(ha, FTRP(ha, start)) = PACK(total, 0)
    /\ Indexed(ha) =
          (Indexed(hb) \ (FreeBefore(hb, p) \cup FreeAfter(hb, p)))
              \cup {start}
    /\ start \notin Indexed(hb) \ FreeBefore(hb, p)

C12_FreeMerges ==
    last.op = "free"
    => /\ last.st = "ok"
       /\ Merged(Before, Cur, last.p,
                 IF FreeBefore(Before, last.p) = {} THEN last.p
                 ELSE PREV_BLKP(Before, last.p),
                 SizeSum(Before, {last.p} \cup FreeBefore(Before, last.p)
                                     \cup FreeAfter(Before, last.p)))


(***************************************************************************)
(* C13  Shrinking mm_realloc.  When the rounded size of n is below the     *)
(* size of p's block by at least 16, mm_realloc(p, n) returns p, p's block *)
(* becomes (rounded size, allocated) and the rest enters the index as a    *)
(* free block that is not merged with the block after it; when the         *)
(* difference is below 16 the call returns p and changes nothing.          *)
(***************************************************************************)
\* the call recorded in last resizes a held block to a size other than 0
IsResize == last.op = "realloc" /\ last.p # NULL /\ last.n # 0

\* the size of the block at p before the call recorded in last
OldSize == GET_SIZE(Before, HDRP(last.p))

Unchanged == mem = prev.mem /\ mem_brk = prev.brk

\* p keeps asize bytes and the rest bytes behind them become a free block
ShrunkTo(hb, ha, p, asize, rest) ==
    /\ GET(ha, HDRP(p)) = PACK(asize, 1)
    /\ GET(ha, Sub32(Add32(p, asize), DSIZE)) = PACK(asize, 1)
    /\ GET(ha, HDRP(Add32(p, asize))) = PACK(rest, 0)
    /\ GET(ha, Sub32(Add32(p, Add32(asize, rest)), DSIZE)) = PACK(rest, 0)
    /\ Indexed(ha) = Indexed(hb) \cup {Add32(p, asize)}
    /\ Add32(p, asize) \notin Indexed(hb)
    /\ GET(ha, HDRP(Add32(p, Add32(asize, rest))))
           = GET(hb, HDRP(Add32(p, Add32(asize, rest))))

C13_ReallocShrink ==
    (IsResize /\ ULT(realloc_size2(last.n), OldSize))
    => /\ last.st = "ok"
       /\ last.ret = last.p
       /\ IF UGE(Sub32(OldSize, realloc_size2(last.n)), BLOCKSIZE)
          THEN ShrunkTo(Before, Cur, last.p, realloc_size2(last.n),
                        Sub32(OldSize, realloc_size2(last.n)))
          ELSE Unchanged


(***************************************************************************)
(* C14  In-place growth of mm_realloc.  When the rounded size of n exceeds *)
(* the size of p's block, the block after p is free and the two sizes      *)
(* together reach the rounded size, mm_realloc(p, n) returns p, takes the  *)
(* neighbour out of the index, makes p's block (both sizes, allocated)     *)
(* without splitting, asks for no growth and leaves p's payload as it was. *)
(* When the rounded size equals the size of p's block the call returns p   *)
(* and changes nothing.                                                    *)
(***************************************************************************)
\* the words from p up to (not including) p + len are the same in hb and ha
SameWords(hb, ha, p, len) ==
    \A a \in DOMAIN hb.mem \cup DOMAIN ha.mem :
        (a >= p /\ a < p + len) => GET(hb, a) = GET(ha, a)

\* p has absorbed the whole free block after it
Absorbed(hb, ha, p, osize, nsize) ==
    /\ GET(ha, HDRP(p)) = PACK(Add32(osize, nsize), 1)
    /\ GET(ha, Sub32(Add32(p, Add32(osize, nsize)), DSIZE))
           = PACK(Add32(osize, nsize), 1)
    /\ Indexed(ha) = Indexed(hb) \ {Add32(p, osize)}
    /\ Add32(p, osize) \in Indexed(hb)
    /\ SameWords(hb, ha, p, osize - DSIZE)

\* the block after p is free and large enough for p to grow to asize
CanGrowInPlace(h, p, asize) ==
    /\ UGT(asize, GET_SIZE(h, HDRP(p)))
    /\ GET_ALLOC(h, HDRP(NEXT_BLKP(h, p))) = 0
    /\ UGE(Add32(GET_SIZE(h, HDRP(NEXT_BLKP(h, p))), GET_SIZE(h, HDRP(p))),
           asize)

C14_ReallocGrowInPlace ==
    /\ (IsResize /\ CanGrowInPlace(Before, last.p, realloc_size2(last.n)))
       => /\ last.st = "ok"
          /\ last.ret = last.p
          /\ last.grow = <<>>
          /\ mem_brk = prev.brk
          /\ Absorbed(Before, Cur, last.p, OldSize,
                      GET_SIZE(Before, HDRP(NEXT_BLKP(Before, last.p))))
    /\ (IsResize /\ realloc_size2(last.n) = OldSize)
       => last.st = "ok" /\ last.ret = last.p /\ Unchanged


(***************************************************************************)
(* C15  Placement.  mm_malloc places the rounded size s in a candidate     *)
(* free block of size c >= s: the candidate leaves the index; if           *)
(* c - s >= 16 the returned block has size s and is followed by a free     *)
(* block of size c - s that enters the index, otherwise the returned block *)
(* is the whole candidate and nothing enters the index.  The size of an    *)
(* allocated block exceeds the rounded size by 0 or 8.                     *)
(***************************************************************************)
\* the heap in which mm_malloc calls place, the candidate being its ret:
\* mm.c lines 138 and 144-146
Candidate(h, size2) ==
    Then(find_fit(h, size2), LAMBDA f :
         IF Faulted(f) \/ f.ret # NULL THEN f
         ELSE extend_heap(f, UDiv(MAX(size2, CHUNKSIZE), WSIZE)))

\* ha is hc after asize bytes of the free block bp of csize bytes were taken
Placed(hc, ha, bp, asize, csize) ==
    IF UGE(Sub32(csize, asize), BLOCKSIZE)
    THEN /\ GET(ha, HDRP(bp)) = PACK(asize, 1)
         /\ GET(ha, Sub32(Add32(bp, asize), DSIZE)) = PACK(asize, 1)
         /\ GET(ha, HDRP(Add32(bp, asize))) = PACK(Sub32(csize, asize), 0)
         /\ GET(ha, Sub32(Add32(bp, csize), DSIZE))
                = PACK(Sub32(csize, asize), 0)
         /\ Indexed(ha) = (Indexed(hc) \ {bp}) \cup {Add32(bp, asize)}
    ELSE /\ GET(ha, HDRP(bp)) = PACK(csize, 1)
         /\ GET(ha, Sub32(Add32(bp, csize), DSIZE)) = PACK(csize, 1)
         /\ Indexed(ha) = Indexed(hc) \ {bp}

PlacedIn(hc, asize) ==
    /\ hc.st = "ok"
    /\ hc.ret = last.ret
    /\ last.ret \in Indexed(hc)
    /\ UGE(GET_SIZE(hc, HDRP(last.ret)), asize)
       => /\ Placed(hc, Cur, last.ret, asize, GET_SIZE(hc, HDRP(last.ret)))
          /\ Sub32(GET_SIZE(Cur, HDRP(last.ret)), asize) \in {0, DSIZE}

C15_Placement ==
    (last.op = "malloc" /\ last.st = "ok" /\ last.ret # NULL)
    => PlacedIn(Candidate(Before, malloc_size2(last.n)), malloc_size2(last.n))


(***************************************************************************)
(* Candidate selection order                                               *)
(***************************************************************************)
Reverse(q) == [i \in 1 .. Len(q) |-> q[Len(q) + 1 - i]]

\* a bucket's blocks from the head along the next-links: free_list_insert
\* links a block in front of the head (mm.c lines 479-484), so this is the
\* latest insertion first
NewestFirst(h, c) == Bucket(h, c)

\* a bucket's blocks in the order of their insertion
OldestFirst(h, c) == Reverse(Bucket(h, c))

RECURSIVE ScanNewestFirst(_, _)
\* the blocks of the buckets c and up, each bucket latest insertion first
ScanNewestFirst(h, c) ==
    IF c >= ClassSize THEN <<>>
    ELSE NewestFirst(h, c) \o ScanNewestFirst(h, c + 1)

RECURSIVE ScanOldestFirst(_, _)
\* the blocks of the buckets c and up, each bucket in insertion order
ScanOldestFirst(h, c) ==
    IF c >= ClassSize THEN <<>>
    ELSE OldestFirst(h, c) \o ScanOldestFirst(h, c + 1)

\* the first block of the scan that holds asize bytes, or NULL
FirstFit(h, scan, asize) ==
    IF \E i \in 1 .. Len(scan) : UGE(GET_SIZE(h, HDRP(scan[i])), asize)
    THEN scan[CHOOSE i \in 1 .. Len(scan) :
                 /\ UGE(GET_SIZE(h, HDRP(scan[i])), asize)
                 /\ \A j \in 1 .. i - 1 :
                       ULT(GET_SIZE(h, HDRP(scan[j])), asize)]
    ELSE NULL

\* mm_malloc has taken the first fit of the scan, and has asked for growth
\* only when the scan holds no fit
TakesFirstOf(scan, asize) ==
    IF FirstFit(Before, scan, asize) # NULL
    THEN last.ret = FirstFit(Before, scan, asize) /\ last.grow = <<>>
    ELSE last.grow # <<>>

IsAllocation == last.op = "malloc" /\ last.st = "ok" /\ last.n # 0

(***************************************************************************)
(* C16  Candidate selection order, as amended: mm_malloc scans the buckets *)
(* from the size class of the rounded size upward and, within each bucket, *)
(* the free list from its head, that is the most recently inserted block   *)
(* first, and takes the first block met whose size is at least the rounded *)
(* size.                                                                   *)
(***************************************************************************)
C16_NewestFirstFit ==
    IsAllocation
    => TakesFirstOf(ScanNewestFirst(Before,
                                    insert_class(malloc_size2(last.n))),
                    malloc_size2(last.n))

(***************************************************************************)
(* C16  Candidate selection order, as claimed: within each bucket the free *)
(* list is scanned in insertion order.                                     *)
(***************************************************************************)
C16_InsertionOrderFit ==
    IsAllocation
    => TakesFirstOf(ScanOldestFirst(Before,
                                    insert_class(malloc_size2(last.n))),
                    malloc_size2(last.n))

\* mm_malloc has passed over an older block of the bucket that fits
C16_TwoFits ==
    /\ IsAllocation
    /\ last.ret # NULL
    /\ last.grow = <<>>
    /\ \E c \in Classes : \E i \in 2 .. Len(Bucket(Before, c)) :
          /\ Bucket(Before, c)[1] = last.ret
          /\ UGE(GET_SIZE(Before, HDRP(Bucket(Before, c)[i])),
                 malloc_size2(last.n))


(***************************************************************************)
(* C17  Block-size rounding.  For a request of n >= 1 bytes mm_malloc and  *)
(* mm_realloc compute the same block size; it is 16 when n <= 8 and        *)
(* otherwise the smallest multiple of 8 that is at least n + 8.            *)
(***************************************************************************)
\* asize is the smallest multiple of 8 that is at least n + 8, n and asize
\* being unsigned 32-bit values
SmallestMultiple(n, asize) ==
    /\ asize % DSIZE = 0
    /\ UGE(asize, n)
    /\ Sub32(asize, n) >= DSIZE
    /\ Sub32(asize, n) < 2 * DSIZE

RoundedFor(n, asize) ==
    IF ULE(n, DSIZE) THEN asize = 2 * DSIZE ELSE SmallestMultiple(n, asize)

C17_Rounding ==
    (last.op \in {"malloc", "realloc"} /\ last.n # 0)
    => /\ malloc_size2(last.n) = realloc_size2(last.n)
       /\ RoundedFor(last.n, malloc_size2(last.n))


(***************************************************************************)
(* C18: the size-class function                                            *)
(***************************************************************************)
RECURSIVE Pow2(_)
Pow2(k) == IF k = 0 THEN 1 ELSE 2 * Pow2(k - 1)

\* the step function of the claim: 0 up to 16, k for 16*2^(k-1) < size <=
\* 16*2^k, ClassSize - 1 above 16*2^15
StepClass(size) ==
    IF ULE(size, BLOCKSIZE) THEN 0
    ELSE IF UGT(size, BLOCKSIZE * Pow2(ClassSize - 2)) THEN ClassSize - 1
    ELSE CHOOSE k \in 1 .. ClassSize - 2 :
            /\ ULT(BLOCKSIZE * Pow2(k - 1), size)
            /\ ULE(size, BLOCKSIZE * Pow2(k))

\* the sizes around every step of the function, and the ends of the range
ClassInputs ==
    {0, 1, DSIZE, -1, -15, INT_MAX, -INT_MAX - 1, -INT_MAX}
        \cup {BLOCKSIZE * Pow2(k) + d : k \in 0 .. ClassSize - 1,
                                         d \in {-DSIZE, -1, 0, 1, DSIZE}}

\* no block of a bucket below the one the search for asize starts in is
\* large enough for asize
NoFitBelow(h, asize) ==
    \A c \in Classes :
        c < find_class(asize) =>
            \A i \in 1 .. Len(Bucket(h, c)) :
                ULT(GET_SIZE(h, HDRP(Bucket(h, c)[i])), asize)

\* the caller computing the bucket of a size both ways
Classify(n) ==
    /\ last' = [op |-> "class", p |-> 0, old |-> find_class(n), n |-> n,
                ret |-> insert_class(n), grow |-> <<>>, st |-> "ok"]
    /\ UNCHANGED <<mem, mem_brk, mem_start, mem_max_addr, junk, FreeBlocks,
                   HeapBlocks, status, live, prev, nops>>

NextClass == \E n \in ClassInputs : Classify(n)

SpecClass == Init /\ [][NextClass]_vars

ClassFunction ==
    last.op = "class" =>
        /\ last.ret = StepClass(last.n)
        /\ last.old = last.ret
        /\ \A m \in ClassInputs :
              ULE(m, last.n) => insert_class(m) <= last.ret

\* C18: the bucket of a size is the step function 0 (size <= 16), k
\* (16*2^(k-1) < size <= 16*2^k, k = 1 .. 15), 16 (size > 16*2^15), it is
\* monotonic, find_fit and free_list_insert compute the same bucket, and when
\* mm_malloc searches no block of a lower bucket is large enough
C18_SizeClass ==
    /\ ClassFunction
    /\ (last.op = "malloc" /\ last.n # 0) =>
           /\ find_class(malloc_size2(last.n))
                  = insert_class(malloc_size2(last.n))
           /\ find_class(malloc_size2(last.n))
                  = StepClass(malloc_size2(last.n))
           /\ NoFitBelow(Before, malloc_size2(last.n))


(***************************************************************************)
(* C19: payload and metadata isolation                                     *)
(***************************************************************************)
\* the allocations the caller held before the last call whose header had
\* the allocated bit set, the block the call was about left out
OtherAllocated ==
    {prev.live[i].p : i \in 1 .. Len(prev.live)}
        \cap {q \in Int : q # last.p /\ GET_ALLOC(Before, HDRP(q)) = 1}

\* header, payload and footer of the block at q hold in ha what they held
\* in hb
BlockKept(hb, ha, q) ==
    /\ GET(hb, HDRP(q)) = GET(ha, HDRP(q))
    /\ GET(hb, FTRP(hb, q)) = GET(ha, FTRP(hb, q))
    /\ SameWords(hb, ha, HDRP(q), GET_SIZE(hb, HDRP(q)))

\* C19: mm_malloc, mm_free(p) and mm_realloc(p, n) leave the header, the
\* payload and the footer of every allocated block the caller holds, other
\* than p, as they were
C19_Isolation ==
    (last.op \in {"malloc", "free", "realloc"} /\ last.st = "ok") =>
        \A q \in OtherAllocated : BlockKept(Before, Cur, q)


(***************************************************************************)
(* C20: link symmetry of the index                                         *)
(***************************************************************************)
\* the list of bucket c is linked both ways and ends in a null next-link
Symmetric(h, c) ==
    /\ ListEnd(h, GET(h, Slot(h, c)), {}) = 0
    /\ \A i \in 1 .. Len(Bucket(h, c)) :
          /\ Bucket(h, c)[i] # 0
          /\ p_char_GET(h, Bucket(h, c)[i])
                 = IF i = 1 THEN Slot(h, c) ELSE Bucket(h, c)[i - 1]
          /\ pAtC_GET(h, Bucket(h, c)[i])
                 = IF i = Len(Bucket(h, c)) THEN 0 ELSE Bucket(h, c)[i + 1]

\* the addresses of the bucket slots
Slots(h) == {Slot(h, c) : c \in Classes}

LinkSymmetry(h) ==
    /\ \A c \in Classes : Symmetric(h, c)
    /\ \A b \in Indexed(h) :
          (free_list_pre(h, p_char_GET(h, b)) = 0)
              <=> (\E c \in Classes : GET(h, Slot(h, c)) = b)
    /\ \A b \in BlockSet(h) \cup Indexed(h) :
          /\ b \notin Slots(h)
          /\ free_list_pre(h, b) = 1

\* C20: every bucket list is linked both ways, from the slot to a null
\* next-link; the test of free_list_remove for a head block, a prev-link
\* lying word-aligned in the bucket array, is true of exactly the head
\* blocks; no block address lies in the bucket array
C20_LinkSymmetry == status = "ready" => LinkSymmetry(Cur)

=============================================================================
